---- MODULE Spec2Model ----
(***************************************************************************)
(* Model of hyper::metrics::ManifoldMetric<variables::SE3<TScalar>>.       *)
(*                                                                         *)
(* The metric chains three group primitives, gInv, gPlus and gLog, and     *)
(* multiplies their derivatives.  The primitives are those of              *)
(* hyper/variables/groups/groups.hpp; they are modelled on a finite        *)
(* rigid-motion group: a pose is <<r, t>> with a rotation                  *)
(* r \in {0, 1} (1 is the half turn) and a translation t \in Z_Modulus.    *)
(* With coupled = TRUE the group is the semi-direct product (the rotation  *)
(* acts on the translation, as in SE3), with coupled = FALSE the direct    *)
(* product (as in SU2 x R3).  Jacobians are 2 x 2 matrices over Z_Modulus. *)
(***************************************************************************)
EXTENDS Integers, Sequences, FiniteSets

VARIABLES
    kGlobal,      \* HYPER_DEFAULT_TO_GLOBAL_MANIFOLD_DERIVATIVES of the build
    kCoupled,     \* HYPER_DEFAULT_TO_COUPLED_MANIFOLD_DERIVATIVES of the build
    global_,      \* member of the metric instance
    coupled_,     \* member of the metric instance
    ctorGlobal,   \* argument the instance was constructed with
    ctorCoupled,  \* argument the instance was constructed with
    args,         \* inputs of the caller: lhs, rhs and the explicit flags
    res,          \* what the static Distance wrote, per request combination
    bound,        \* what the last call of the bound distance wrote
    thr           \* threads calling distance on the instance

vars == <<kGlobal, kCoupled, global_, coupled_, ctorGlobal, ctorCoupled,
          args, res, bound, thr>>

\* Size of the translation ring Z_Modulus.
Modulus == 3

\* Number of threads sharing the instance.
NumThreads == 2

-----------------------------------------------------------------------------
(* Values: poses, tangents, Jacobians.                                     *)

Input == {0, 1} \X (0 .. Modulus - 1)

Output == {0, 1} \X (0 .. Modulus - 1)

ZeroTangent == <<0, 0>>

\* A Jacobian buffer that was not supplied (nullptr).
NoJ == <<>>

Identity == <<<<1, 0>>, <<0, 1>>>>

lazyProduct(A, B) ==
    <<<<(A[1][1] * B[1][1] + A[1][2] * B[2][1]) % Modulus,
        (A[1][1] * B[1][2] + A[1][2] * B[2][2]) % Modulus>>,
      <<(A[2][1] * B[1][1] + A[2][2] * B[2][1]) % Modulus,
        (A[2][1] * B[1][2] + A[2][2] * B[2][2]) % Modulus>>>>

Negate(A) ==
    <<<<(Modulus - A[1][1]) % Modulus, (Modulus - A[1][2]) % Modulus>>,
      <<(Modulus - A[2][1]) % Modulus, (Modulus - A[2][2]) % Modulus>>>>

-----------------------------------------------------------------------------
(* The group primitives.                                                   *)

\* The rotation r applied to the translation t.
Act(r, t) == IF r = 1 THEN (Modulus - t) % Modulus ELSE t

Sign(r) == IF r = 1 THEN Modulus - 1 ELSE 1

InvValue(p, coupled) ==
    IF coupled THEN <<p[1], (Modulus - Act(p[1], p[2])) % Modulus>>
               ELSE <<p[1], (Modulus - p[2]) % Modulus>>

PlusValue(a, b, coupled) ==
    IF coupled THEN <<(a[1] + b[1]) % 2, (a[2] + Act(a[1], b[2])) % Modulus>>
               ELSE <<(a[1] + b[1]) % 2, (a[2] + b[2]) % Modulus>>

LogValue(p, coupled) ==
    IF coupled THEN <<p[1], Act(p[1], p[2])>> ELSE <<p[1], p[2]>>

\* The adjoint of a pose: one 2 x 2 block when coupled, block diagonal otherwise.
Adjoint(p, coupled) ==
    <<<<Sign(p[1]), IF coupled THEN p[2] ELSE 0>>, <<0, 1>>>>

InvJacobian(p, global, coupled) ==
    IF global THEN Negate(Adjoint(InvValue(p, coupled), coupled))
              ELSE Negate(Adjoint(p, coupled))

PlusJacobianThis(a, b, global, coupled) ==
    IF global THEN Identity ELSE Adjoint(InvValue(b, coupled), coupled)

PlusJacobianOther(a, b, global, coupled) ==
    IF global THEN Adjoint(a, coupled) ELSE Identity

LogJacobian(p, global, coupled) ==
    IF global THEN <<<<1, 0>>, <<IF coupled THEN p[2] ELSE 0, Sign(p[1])>>>>
              ELSE <<<<Sign(p[1]), 0>>, <<IF coupled THEN p[2] ELSE 0, 1>>>>

\* p.gInv(J_this, global, coupled); J_this is TRUE when a destination is given.
gInv(p, J_this, global, coupled) ==
    [value |-> InvValue(p, coupled),
     J     |-> IF J_this THEN InvJacobian(p, global, coupled) ELSE NoJ,
     call  |-> [op |-> "gInv", in |-> <<p>>, out |-> InvValue(p, coupled),
                global |-> global, coupled |-> coupled,
                dest |-> IF J_this THEN {"J_this"} ELSE {}]]

\* a.gPlus(b, J_this, J_other, global, coupled).
gPlus(a, b, J_this, J_other, global, coupled) ==
    [value   |-> PlusValue(a, b, coupled),
     J_this  |-> IF J_this THEN PlusJacobianThis(a, b, global, coupled) ELSE NoJ,
     J_other |-> IF J_other THEN PlusJacobianOther(a, b, global, coupled) ELSE NoJ,
     call    |-> [op |-> "gPlus", in |-> <<a, b>>, out |-> PlusValue(a, b, coupled),
                  global |-> global, coupled |-> coupled,
                  dest |-> (IF J_this THEN {"J_this"} ELSE {})
                           \cup (IF J_other THEN {"J_other"} ELSE {})]]

\* p.gLog(J_this, global, coupled).
gLog(p, J_this, global, coupled) ==
    [value |-> LogValue(p, coupled),
     J     |-> IF J_this THEN LogJacobian(p, global, coupled) ELSE NoJ,
     call  |-> [op |-> "gLog", in |-> <<p>>, out |-> LogValue(p, coupled),
                global |-> global, coupled |-> coupled,
                dest |-> IF J_this THEN {"J_this"} ELSE {}]]

\* The primitives called without arguments: no destination, the build's defaults.
gInvDefault(p) == gInv(p, FALSE, kGlobal, kCoupled)

gPlusDefault(a, b) == gPlus(a, b, FALSE, FALSE, kGlobal, kCoupled)

gLogDefault(p) == gLog(p, FALSE, kGlobal, kCoupled)

-----------------------------------------------------------------------------
(* ManifoldMetric<SE3>::Distance, one operator per computation path.       *)

\* What one call wrote: the tangent, the Jacobian buffers that were supplied,
\* and the primitive calls it made, in order.
Written(tangent, J_lhs, J_rhs, calls) ==
    [set |-> TRUE, tangent |-> tangent, J_lhs |-> J_lhs, J_rhs |-> J_rhs,
     calls |-> calls]

Unset == [set |-> FALSE]

\* PathBoth with the factors of J_lhs exchanged.
PathBothSwappedProduct(lhs, rhs, global, coupled) ==
    LET i_rhs == gInv(rhs, TRUE, global, coupled)
        lhs_plus_i_rhs == gPlus(lhs, i_rhs.value, TRUE, TRUE, global, coupled)
        log == gLog(lhs_plus_i_rhs.value, TRUE, global, coupled)
    IN Written(log.value,
               lazyProduct(lhs_plus_i_rhs.J_this, log.J),
               lazyProduct(log.J, lazyProduct(lhs_plus_i_rhs.J_other, i_rhs.J)),
               <<i_rhs.call, lhs_plus_i_rhs.call, log.call>>)

\* PathBoth with the derivative of the inverse left out of J_rhs.
PathBothNoInverseJacobian(lhs, rhs, global, coupled) ==
    LET i_rhs == gInv(rhs, TRUE, global, coupled)
        lhs_plus_i_rhs == gPlus(lhs, i_rhs.value, TRUE, TRUE, global, coupled)
        log == gLog(lhs_plus_i_rhs.value, TRUE, global, coupled)
    IN Written(log.value,
               lazyProduct(log.J, lhs_plus_i_rhs.J_this),
               lazyProduct(log.J, lhs_plus_i_rhs.J_other),
               <<i_rhs.call, lhs_plus_i_rhs.call, log.call>>)

PathBoth(lhs, rhs, global, coupled) ==
    LET i_rhs == gInv(rhs, TRUE, global, coupled)
        lhs_plus_i_rhs == gPlus(lhs, i_rhs.value, TRUE, TRUE, global, coupled)
        log == gLog(lhs_plus_i_rhs.value, TRUE, global, coupled)
        J_t_p == log.J
        J_p_l == lhs_plus_i_rhs.J_this
        J_p_ir == lhs_plus_i_rhs.J_other
        J_ir_r == i_rhs.J
    IN Written(log.value,
               lazyProduct(J_t_p, J_p_l),
               lazyProduct(J_t_p, lazyProduct(J_p_ir, J_ir_r)),
               <<i_rhs.call, lhs_plus_i_rhs.call, log.call>>)

\* PathLhs computing every derivative and dropping the one not asked for.
PathLhsAllDerivatives(lhs, rhs, global, coupled) ==
    LET i_rhs == gInv(rhs, TRUE, global, coupled)
        lhs_plus_i_rhs == gPlus(lhs, i_rhs.value, TRUE, TRUE, global, coupled)
        log == gLog(lhs_plus_i_rhs.value, TRUE, global, coupled)
    IN Written(log.value,
               lazyProduct(log.J, lhs_plus_i_rhs.J_this),
               NoJ,
               <<i_rhs.call, lhs_plus_i_rhs.call, log.call>>)

\* PathLhs with the logarithm's derivative taken under the build's flags.
PathLhsDefaultLog(lhs, rhs, global, coupled) ==
    LET i_rhs == gInv(rhs, FALSE, global, coupled)
        lhs_plus_i_rhs == gPlus(lhs, i_rhs.value, TRUE, FALSE, global, coupled)
        log == gLog(lhs_plus_i_rhs.value, TRUE, kGlobal, kCoupled)
    IN Written(log.value,
               lazyProduct(log.J, lhs_plus_i_rhs.J_this),
               NoJ,
               <<i_rhs.call, lhs_plus_i_rhs.call, log.call>>)

PathLhs(lhs, rhs, global, coupled) ==
    LET i_rhs == gInv(rhs, FALSE, global, coupled)
        lhs_plus_i_rhs == gPlus(lhs, i_rhs.value, TRUE, FALSE, global, coupled)
        log == gLog(lhs_plus_i_rhs.value, TRUE, global, coupled)
        J_t_p == log.J
        J_p_l == lhs_plus_i_rhs.J_this
    IN Written(log.value,
               lazyProduct(J_t_p, J_p_l),
               NoJ,
               <<i_rhs.call, lhs_plus_i_rhs.call, log.call>>)

\* PathRhs with the inverse taken of lhs and composed on the left of rhs.
PathRhsInverseOfLhs(lhs, rhs, global, coupled) ==
    LET i_lhs == gInv(lhs, TRUE, global, coupled)
        i_lhs_plus_rhs == gPlus(i_lhs.value, rhs, FALSE, TRUE, global, coupled)
        log == gLog(i_lhs_plus_rhs.value, TRUE, global, coupled)
    IN Written(log.value,
               NoJ,
               lazyProduct(log.J, lazyProduct(i_lhs_plus_rhs.J_other, i_lhs.J)),
               <<i_lhs.call, i_lhs_plus_rhs.call, log.call>>)

PathRhs(lhs, rhs, global, coupled) ==
    LET i_rhs == gInv(rhs, TRUE, global, coupled)
        lhs_plus_i_rhs == gPlus(lhs, i_rhs.value, FALSE, TRUE, global, coupled)
        log == gLog(lhs_plus_i_rhs.value, TRUE, global, coupled)
        J_t_p == log.J
        J_p_ir == lhs_plus_i_rhs.J_other
        J_ir_r == i_rhs.J
    IN Written(log.value,
               NoJ,
               lazyProduct(J_t_p, lazyProduct(J_p_ir, J_ir_r)),
               <<i_rhs.call, lhs_plus_i_rhs.call, log.call>>)

\* PathNone without the inverse: lhs_.gPlus(rhs_).gLog().
PathNoneNoInverse(lhs, rhs, global, coupled) ==
    LET i_rhs == gInvDefault(rhs)
        lhs_plus_rhs == gPlusDefault(lhs, rhs)
        log == gLogDefault(lhs_plus_rhs.value)
    IN Written(log.value, NoJ, NoJ,
               <<i_rhs.call, lhs_plus_rhs.call, log.call>>)

\* output_ = lhs_.gPlus(rhs_.gInv()).gLog(): the flags of the call are not handed on.
PathNone(lhs, rhs, global, coupled) ==
    LET i_rhs == gInvDefault(rhs)
        lhs_plus_i_rhs == gPlusDefault(lhs, i_rhs.value)
        log == gLogDefault(lhs_plus_i_rhs.value)
    IN Written(log.value, NoJ, NoJ,
               <<i_rhs.call, lhs_plus_i_rhs.call, log.call>>)

\* J_lhs and J_rhs are TRUE when the buffer is supplied (non-null).
Distance(lhs, rhs, J_lhs, J_rhs, global, coupled) ==
    IF J_lhs \/ J_rhs
    THEN IF J_lhs /\ J_rhs THEN PathBoth(lhs, rhs, global, coupled)
         ELSE IF J_lhs THEN PathLhs(lhs, rhs, global, coupled)
         ELSE PathRhs(lhs, rhs, global, coupled)
    ELSE PathNone(lhs, rhs, global, coupled)

\* The request combinations: <<J_lhs supplied, J_rhs supplied>>.
Request == BOOLEAN \X BOOLEAN

-----------------------------------------------------------------------------
(* A caller of the stateless entry points: one pair of poses and one pair  *)
(* of explicit flags, drawn at the start, and calls with every request     *)
(* combination.                                                            *)

Threads == 1 .. NumThreads

Idle == [pc |-> "idle"]

Init ==
    /\ kGlobal \in BOOLEAN
    /\ kCoupled \in BOOLEAN
    /\ ctorGlobal = kGlobal
    /\ ctorCoupled = kCoupled
    /\ global_ = ctorGlobal
    /\ coupled_ = ctorCoupled
    /\ args \in [lhs : Input, rhs : Input, global : BOOLEAN, coupled : BOOLEAN]
    /\ res = [r \in Request |-> Unset]
    /\ bound = Unset
    /\ thr = [t \in Threads |-> Idle]

\* static Distance(const TScalar*, const TScalar*, TScalar*, TScalar*, TScalar*, bool, bool)
DistanceRaw(J_lhs, J_rhs) ==
    /\ res' = [res EXCEPT ![<<J_lhs, J_rhs>>] =
                  Distance(args.lhs, args.rhs, J_lhs, J_rhs, args.global, args.coupled)]
    /\ UNCHANGED <<kGlobal, kCoupled, global_, coupled_, ctorGlobal, ctorCoupled,
                   args, bound, thr>>

\* static Distance(const Ref&, const Ref&, TScalar*, TScalar*, bool, bool) -> Output
DistanceRef(J_lhs, J_rhs) ==
    /\ LET output == Distance(args.lhs, args.rhs, J_lhs, J_rhs, args.global, args.coupled)
       IN res' = [res EXCEPT ![<<J_lhs, J_rhs>>] = output]
    /\ UNCHANGED <<kGlobal, kCoupled, global_, coupled_, ctorGlobal, ctorCoupled,
                   args, bound, thr>>

Next ==
    \/ \E jl \in BOOLEAN, jr \in BOOLEAN : DistanceRaw(jl, jr)
    \/ \E jl \in BOOLEAN, jr \in BOOLEAN : DistanceRef(jl, jr)

Spec == Init /\ [][Next]_vars

-----------------------------------------------------------------------------
(* A caller of the bound entry points: an instance constructed with any    *)
(* flags, one pair of poses, and calls with every request combination.     *)

InitInstance ==
    /\ kGlobal \in BOOLEAN
    /\ kCoupled \in BOOLEAN
    /\ ctorGlobal = kGlobal
    /\ ctorCoupled = kCoupled
    /\ global_ = ctorGlobal
    /\ coupled_ = ctorCoupled
    /\ args \in [lhs : Input, rhs : Input, global : {kGlobal}, coupled : {kCoupled}]
    /\ res = [r \in Request |-> Unset]
    /\ bound = Unset
    /\ thr = [t \in Threads |-> Idle]

\* The constructor with its member initialisers exchanged.
ConstructExchanged(global, coupled) ==
    /\ ctorGlobal' = global
    /\ ctorCoupled' = coupled
    /\ global_' = coupled
    /\ coupled_' = global
    /\ bound' = Unset
    /\ UNCHANGED <<kGlobal, kCoupled, args, res, thr>>

\* explicit ManifoldMetric(global = kGlobal, coupled = kCoupled)
\*     : global_{global}, coupled_{coupled}
Construct(global, coupled) ==
    /\ ctorGlobal' = global
    /\ ctorCoupled' = coupled
    /\ global_' = global
    /\ coupled_' = coupled
    /\ bound' = Unset
    /\ UNCHANGED <<kGlobal, kCoupled, args, res, thr>>

\* distance(const TScalar*, const TScalar*, TScalar*, TScalar*, TScalar*) final
distanceRaw(J_lhs, J_rhs) ==
    /\ bound' = [set |-> TRUE, req |-> <<J_lhs, J_rhs>>,
                 out |-> Distance(args.lhs, args.rhs, J_lhs, J_rhs, global_, coupled_)]
    /\ UNCHANGED <<kGlobal, kCoupled, global_, coupled_, ctorGlobal, ctorCoupled,
                   args, res, thr>>

\* distance(const Ref&, const Ref&, TScalar*, TScalar*) const -> Output
distanceRef(J_lhs, J_rhs) ==
    /\ LET output == Distance(args.lhs, args.rhs, J_lhs, J_rhs, global_, coupled_)
       IN bound' = [set |-> TRUE, req |-> <<J_lhs, J_rhs>>, out |-> output]
    /\ UNCHANGED <<kGlobal, kCoupled, global_, coupled_, ctorGlobal, ctorCoupled,
                   args, res, thr>>

NextInstance ==
    \/ \E g \in BOOLEAN, c \in BOOLEAN : Construct(g, c)
    \/ \E jl \in BOOLEAN, jr \in BOOLEAN : distanceRaw(jl, jr)
    \/ \E jl \in BOOLEAN, jr \in BOOLEAN : distanceRef(jl, jr)

SpecInstance == InitInstance /\ [][NextInstance]_vars

-----------------------------------------------------------------------------
(* Several threads calling distance on one instance, each with its own     *)
(* input and output buffers.  A call reads the two members of the instance *)
(* and hands them to the static Distance, which touches only its arguments *)
(* and its temporaries.                                                    *)

\* The buffers of thread t: its own pair of poses.
ThreadLhs(t) == <<t % 2, t % Modulus>>

ThreadRhs(t) == <<1, (t + 1) % Modulus>>

InitThreads ==
    /\ kGlobal \in BOOLEAN
    /\ kCoupled \in BOOLEAN
    /\ ctorGlobal \in BOOLEAN
    /\ ctorCoupled \in BOOLEAN
    /\ global_ = ctorGlobal
    /\ coupled_ = ctorCoupled
    /\ args = [lhs |-> <<0, 0>>, rhs |-> <<0, 0>>, global |-> kGlobal, coupled |-> kCoupled]
    /\ res = [r \in Request |-> Unset]
    /\ bound = Unset
    /\ thr = [t \in Threads |-> Idle]

\* Thread t enters distance(lhs, rhs, output, J_lhs, J_rhs) with its own buffers.
ThreadCall(t, J_lhs, J_rhs) ==
    /\ thr[t].pc = "idle"
    /\ thr' = [thr EXCEPT ![t] = [pc |-> "readGlobal", lhs |-> ThreadLhs(t),
                                  rhs |-> ThreadRhs(t), req |-> <<J_lhs, J_rhs>>]]
    /\ UNCHANGED <<kGlobal, kCoupled, global_, coupled_, ctorGlobal, ctorCoupled,
                   args, res, bound>>

\* The argument global_ of the forwarding call is read.
ThreadReadGlobal(t) ==
    /\ thr[t].pc = "readGlobal"
    /\ thr' = [thr EXCEPT ![t] = [pc |-> "readCoupled", lhs |-> thr[t].lhs,
                                  rhs |-> thr[t].rhs, req |-> thr[t].req,
                                  global |-> global_]]
    /\ UNCHANGED <<kGlobal, kCoupled, global_, coupled_, ctorGlobal, ctorCoupled,
                   args, res, bound>>

\* A distance that toggles coupled_ while it reads it.
ThreadReadCoupledToggle(t) ==
    /\ thr[t].pc = "readCoupled"
    /\ thr' = [thr EXCEPT ![t] = [pc |-> "Distance", lhs |-> thr[t].lhs,
                                  rhs |-> thr[t].rhs, req |-> thr[t].req,
                                  global |-> thr[t].global, coupled |-> coupled_]]
    /\ coupled_' = ~coupled_
    /\ UNCHANGED <<kGlobal, kCoupled, global_, ctorGlobal, ctorCoupled,
                   args, res, bound>>

\* The argument coupled_ of the forwarding call is read.
ThreadReadCoupled(t) ==
    /\ thr[t].pc = "readCoupled"
    /\ thr' = [thr EXCEPT ![t] = [pc |-> "Distance", lhs |-> thr[t].lhs,
                                  rhs |-> thr[t].rhs, req |-> thr[t].req,
                                  global |-> thr[t].global, coupled |-> coupled_]]
    /\ UNCHANGED <<kGlobal, kCoupled, global_, coupled_, ctorGlobal, ctorCoupled,
                   args, res, bound>>

\* Distance(lhs, rhs, output, J_lhs, J_rhs, global_, coupled_) runs on the thread's buffers.
ThreadDistance(t) ==
    /\ thr[t].pc = "Distance"
    /\ thr' = [thr EXCEPT ![t] = [pc |-> "done", lhs |-> thr[t].lhs,
                                  rhs |-> thr[t].rhs, req |-> thr[t].req,
                                  out |-> Distance(thr[t].lhs, thr[t].rhs,
                                                   thr[t].req[1], thr[t].req[2],
                                                   thr[t].global, thr[t].coupled)]]
    /\ UNCHANGED <<kGlobal, kCoupled, global_, coupled_, ctorGlobal, ctorCoupled,
                   args, res, bound>>

\* The call returns; the thread may call again.
ThreadReturn(t) ==
    /\ thr[t].pc = "done"
    /\ thr' = [thr EXCEPT ![t] = Idle]
    /\ UNCHANGED <<kGlobal, kCoupled, global_, coupled_, ctorGlobal, ctorCoupled,
                   args, res, bound>>

NextThreads ==
    \/ \E t \in Threads, jl \in BOOLEAN, jr \in BOOLEAN : ThreadCall(t, jl, jr)
    \/ \E t \in Threads : ThreadReadGlobal(t)
    \/ \E t \in Threads : ThreadReadCoupled(t)
    \/ \E t \in Threads : ThreadDistance(t)
    \/ \E t \in Threads : ThreadReturn(t)

SpecThreads == InitThreads /\ [][NextThreads]_vars

-----------------------------------------------------------------------------
(* The properties.                                                         *)

None == <<FALSE, FALSE>>
LhsOnly == <<TRUE, FALSE>>
RhsOnly == <<FALSE, TRUE>>
Both == <<TRUE, TRUE>>

\* Two calls wrote the same tangent and the same Jacobians.
SameOutput(a, b) ==
    /\ a.tangent = b.tangent
    /\ a.J_lhs = b.J_lhs
    /\ a.J_rhs = b.J_rhs

C3_BoundEqualsStateless ==
    bound.set =>
        SameOutput(bound.out,
                   Distance(args.lhs, args.rhs, bound.req[1], bound.req[2],
                            ctorGlobal, ctorCoupled))

C3_Witness ==
    /\ bound.set
    /\ bound.req = Both
    /\ ctorGlobal # ctorCoupled
    /\ ctorCoupled # kCoupled
    /\ args.lhs = <<1, 1>>
    /\ args.rhs = <<0, 1>>

\* C4: in every path the tangent is log(compose(lhs, inverse(rhs))): the inverse
\* is taken of rhs, lhs is the first and inverse(rhs) the second argument of
\* compose, and log is applied to the composition (each primitive under the
\* convention the path runs the chain with).
C4_TangentIsLogOfLhsComposedWithInverseRhs ==
    \A r \in Request :
        res[r].set =>
            LET c == res[r].calls[3].coupled
            IN res[r].tangent
                   = LogValue(PlusValue(args.lhs, InvValue(args.rhs, c), c), c)

C4_Witness ==
    /\ \A r \in Request : res[r].set
    /\ args.lhs = <<1, 1>>
    /\ args.rhs = <<0, 1>>
    /\ res[RhsOnly].tangent # ZeroTangent
    /\ res[RhsOnly].tangent
           # LogValue(PlusValue(InvValue(args.lhs, args.coupled), args.rhs,
                                args.coupled), args.coupled)

\* C5: whenever J_lhs is requested, the J_lhs buffer holds J_log * J_compose_wrt_lhs,
\* in that order, both derivatives taken in the same call.
C5_JLhsIsLogTimesComposeWrtLhs ==
    \A r \in {LhsOnly, Both} :
        res[r].set =>
            LET i_rhs == res[r].calls[1].out
                p == res[r].calls[2].out
            IN res[r].J_lhs
                   = lazyProduct(LogJacobian(p, args.global, args.coupled),
                                 PlusJacobianThis(args.lhs, i_rhs,
                                                  args.global, args.coupled))

C5_Witness ==
    /\ res[LhsOnly].set
    /\ res[Both].set
    /\ res[Both].J_lhs
           # lazyProduct(PlusJacobianThis(args.lhs, res[Both].calls[1].out,
                                          args.global, args.coupled),
                         LogJacobian(res[Both].calls[2].out,
                                     args.global, args.coupled))

\* C6: whenever J_rhs is requested, the J_rhs buffer holds
\* J_log * J_compose_wrt_invRhs * J_inverse, in that order.
C6_JRhsIsLogTimesComposeWrtInvRhsTimesInverse ==
    \A r \in {RhsOnly, Both} :
        res[r].set =>
            LET i_rhs == res[r].calls[1].out
                p == res[r].calls[2].out
            IN res[r].J_rhs
                   = lazyProduct(
                         lazyProduct(LogJacobian(p, args.global, args.coupled),
                                     PlusJacobianOther(args.lhs, i_rhs,
                                                       args.global, args.coupled)),
                         InvJacobian(args.rhs, args.global, args.coupled))

C6_Witness ==
    /\ res[RhsOnly].set
    /\ res[Both].set
    /\ res[RhsOnly].J_rhs
           # lazyProduct(
                 lazyProduct(InvJacobian(args.rhs, args.global, args.coupled),
                             PlusJacobianOther(args.lhs, res[RhsOnly].calls[1].out,
                                               args.global, args.coupled)),
                 LogJacobian(res[RhsOnly].calls[2].out, args.global, args.coupled))

\* C7: a primitive is handed a derivative destination only when a requested
\* Jacobian needs it: gInv exactly when J_rhs is requested, gPlus for its first
\* argument exactly when J_lhs is and for its second exactly when J_rhs is, gLog
\* exactly when at least one Jacobian is.
C7_DestinationsOnlyWhereNeeded ==
    \A r \in Request :
        res[r].set =>
            /\ res[r].calls[1].op = "gInv"
            /\ res[r].calls[1].dest = (IF r[2] THEN {"J_this"} ELSE {})
            /\ res[r].calls[2].op = "gPlus"
            /\ res[r].calls[2].dest = (IF r[1] THEN {"J_this"} ELSE {})
                                      \cup (IF r[2] THEN {"J_other"} ELSE {})
            /\ res[r].calls[3].op = "gLog"
            /\ res[r].calls[3].dest = (IF r[1] \/ r[2] THEN {"J_this"} ELSE {})

C7_Witness ==
    /\ \A r \in Request : res[r].set
    /\ res[None].calls[3].dest = {}
    /\ res[LhsOnly].calls[1].dest = {}
    /\ res[LhsOnly].calls[2].dest = {"J_this"}
    /\ res[RhsOnly].calls[2].dest = {"J_other"}

\* C8: a Jacobian computed by two paths has the same value in both: J_lhs of
\* the J_lhs-only path and of the both path, J_rhs of the J_rhs-only path and of
\* the both path.
C8_JacobianSameOnBothPaths ==
    /\ (res[LhsOnly].set /\ res[Both].set) => res[LhsOnly].J_lhs = res[Both].J_lhs
    /\ (res[RhsOnly].set /\ res[Both].set) => res[RhsOnly].J_rhs = res[Both].J_rhs

C8_Witness ==
    /\ res[LhsOnly].set
    /\ res[RhsOnly].set
    /\ res[Both].set
    /\ args.global # kGlobal
    /\ args.coupled # kCoupled
    /\ res[Both].J_lhs # res[Both].J_rhs
    /\ res[Both].J_lhs # Identity

\* C9: Distance(p, p) writes the zero tangent, for every pose p, every flag
\* pair and every request combination.
C9_DistanceToItselfIsZero ==
    \A r \in Request :
        (res[r].set /\ args.lhs = args.rhs) => res[r].tangent = ZeroTangent

C9_Witness ==
    /\ args.lhs = <<1, 1>>
    /\ args.rhs = <<1, 1>>
    /\ args.coupled # kCoupled
    /\ \A r \in Request : res[r].set /\ res[r].tangent = ZeroTangent

\* C10: global_ and coupled_ keep their construction-time values whatever calls
\* run, and every call of a thread writes the tangent and Jacobians it writes
\* when run alone, under every interleaving.
C10_ConcurrentCallsAsIfAlone ==
    /\ global_ = ctorGlobal
    /\ coupled_ = ctorCoupled
    /\ \A t \in Threads :
           thr[t].pc = "done" =>
               SameOutput(thr[t].out,
                          Distance(thr[t].lhs, thr[t].rhs, thr[t].req[1],
                                   thr[t].req[2], ctorGlobal, ctorCoupled))

C10_Witness ==
    /\ \A t \in Threads : thr[t].pc = "done"
    /\ thr[1].req = Both
    /\ thr[2].req = None
    /\ ctorCoupled # kCoupled

====
